---- MODULE Spec2Model ----
(***************************************************************************)
(* The recipe store of recipe_book_rust (src/src/database.rs): two SQLite  *)
(* tables, recipes and ingredients, and the operations of RecipeDatabase.  *)
(* A table is a function from rowid to row.  Every operation is one        *)
(* action; `last` records the call that just returned, its arguments and   *)
(* its result.  `tx` is the transaction the connection has open, and       *)
(* `observed` what a second connection to recipes.db has just read.        *)
(***************************************************************************)
EXTENDS Integers, Sequences, FiniteSets, TLC

VARIABLES foreign_keys, recipes, ingredients, last, tx, observed

vars == <<foreign_keys, recipes, ingredients, last, tx, observed>>

\* ------------------------------------------------------------- bounds
\* Largest rowid the recipes table is allowed to reach.
MaxRecipes == 1
\* Largest rowid the ingredients table is allowed to reach.
MaxRows == 2
\* Longest slice of ingredient names passed to one call.
MaxLen == 2

\* ------------------------------------------------------------- inputs
Names == {"lentils", "onion"}
Titles == {"", "Lentil Soup"}
Links == {"", "http://x/1"}
NameSeqs == UNION {[1..n -> Names] : n \in 0..MaxLen}

\* The SQL NULL of the nullable column ingredients.recipe_id.
NULL == -1
\* The recipe id the shell passes for a manual shopping-list entry.
ManualRecipeId == 0
\* Recipe ids a caller may pass: the manual id, and ids that may or may not exist.
RecipeIdArgs == ManualRecipeId..MaxRecipes

\* ------------------------------------------------------------- helpers
Max(S) == CHOOSE x \in S : \A y \in S : y <= x

Restrict(t, S) == [i \in S |-> t[i]]

\* INTEGER PRIMARY KEY without AUTOINCREMENT: the next rowid is the largest + 1.
NextRowId(t) == IF DOMAIN t = {} THEN 1 ELSE Max(DOMAIN t) + 1

\* `have as i32`
HaveInt(have) == IF have THEN 1 ELSE 0

\* The values bound to the placeholders of `name IN (?, ?, ...)`.
InList(names) == {names[i] : i \in DOMAIN names}

\* The names of the rows of `t` whose rowid is in S, in rowid order.
RECURSIVE NamesOf(_, _)
NamesOf(t, S) ==
    IF S = {} THEN <<>>
    ELSE LET m == Max(S) IN Append(NamesOf(t, S \ {m}), t[m].name)

\* ------------------------------------------------------------- statements
\* INSERT INTO recipes (title, link, category, steps)
InsertRecipe(rs, title, link) ==
    [i \in DOMAIN rs \cup {NextRowId(rs)} |->
        IF i \in DOMAIN rs THEN rs[i] ELSE [title |-> title, link |-> link]]

\* DELETE FROM recipes WHERE id = ?1
DeleteRecipeRow(rs, id) == Restrict(rs, DOMAIN rs \ {id})

\* FOREIGN KEY(recipe_id) REFERENCES recipes(id) ON DELETE CASCADE: acts only on
\* a connection that enforces foreign keys.
Cascade(fk, ings, id) ==
    IF fk
    THEN Restrict(ings, {i \in DOMAIN ings : ings[i].recipe_id # id})
    ELSE ings

\* The foreign-key check of an INSERT INTO ingredients.
ForeignKeyOk(fk, rs, rid) == ~fk \/ rid = NULL \/ rid \in DOMAIN rs

\* INSERT INTO ingredients (name, recipe_id): have takes its DEFAULT 0.
InsertIngredient(ings, name, rid) ==
    [i \in DOMAIN ings \cup {NextRowId(ings)} |->
        IF i \in DOMAIN ings THEN ings[i]
        ELSE [name |-> name, recipe_id |-> rid, have |-> 0]]

\* The first k iterations of the loop of add_ingredients.
RECURSIVE InsertAll(_, _, _, _)
InsertAll(ings, rid, names, k) ==
    IF k = 0 THEN ings
    ELSE InsertIngredient(InsertAll(ings, rid, names, k - 1), names[k], rid)

\* UPDATE ingredients SET have = ? WHERE name IN (...)
UpdateHaveNegated(ings, S, have) ==
    [i \in DOMAIN ings |->
        IF ings[i].name \in S THEN [ings[i] EXCEPT !.have = 1 - have] ELSE ings[i]]
UpdateHave(ings, S, have) ==
    [i \in DOMAIN ings |->
        IF ings[i].name \in S THEN [ings[i] EXCEPT !.have = have] ELSE ings[i]]

\* DELETE FROM ingredients WHERE name IN (...)
DeleteManualByName(ings, S) ==
    Restrict(ings, {i \in DOMAIN ings :
                      ings[i].name \notin S \/ ings[i].recipe_id # ManualRecipeId})
DeleteByNameOrAll(ings, S) ==
    IF S = {} THEN Restrict(ings, {})
    ELSE Restrict(ings, {i \in DOMAIN ings : ings[i].name \notin S})
DeleteByName(ings, S) ==
    Restrict(ings, {i \in DOMAIN ings : ings[i].name \notin S})

\* SELECT name FROM ingredients WHERE have = 0
SelectShoppingAll(ings) == NamesOf(ings, DOMAIN ings)
SelectShopping(ings) ==
    NamesOf(ings, {i \in DOMAIN ings : ings[i].have = 0})

\* SELECT name FROM ingredients WHERE recipe_id = ?1
SelectByRecipe(ings, rid) ==
    NamesOf(ings, {i \in DOMAIN ings : ings[i].recipe_id = rid})

\* A transaction dropped without commit rolls back to the state it began in.
RollbackKeepsWork(snapshot, working) == working
Rollback(snapshot, working) == snapshot

\* ------------------------------------------------------------- results
\* What a call returned: Ok(value) or Err(error).  `changes` is the number of rows
\* its statements changed, which Connection::execute returns and the code drops.
Ok(op, args, value, changes) ==
    [op |-> op, args |-> args, status |-> "Ok", error |-> "",
     value |-> value, changes |-> changes]
Err(op, args, error, changes) ==
    [op |-> op, args |-> args, status |-> "Err", error |-> error,
     value |-> <<>>, changes |-> changes]

\* The rows of `t` whose name is in S.
Matching(t, S) == {i \in DOMAIN t : t[i].name \in S}

\* No transaction is open on the connection.
NoTx == [stage |-> "none", names |-> <<>>, working |-> <<>>]

\* The second connection has read nothing since the last step of the first.
NoRead == [status |-> "none", stage |-> "none", names |-> <<>>, rows |-> <<>>,
           list |-> <<>>]

\* A call on `&self` / `&mut self` starts with no transaction open and leaves none.
Idle == tx = NoTx /\ tx' = tx /\ observed' = NoRead

\* ------------------------------------------------------------- operations
Init ==
    /\ foreign_keys \in BOOLEAN
    /\ recipes = <<>>
    /\ ingredients = <<>>
    /\ last = Ok("new", <<>>, <<>>, 0)
    /\ tx = NoTx
    /\ observed = NoRead

add_recipe(title, link, io) ==
    LET args == [title |-> title, link |-> link] IN
    /\ NextRowId(recipes) <= MaxRecipes
    /\ IF io
       THEN /\ last' = Err("add_recipe", args, "StorageFault", 0)
            /\ UNCHANGED recipes
       ELSE /\ recipes' = InsertRecipe(recipes, title, link)
            /\ last' = Ok("add_recipe", args, <<NextRowId(recipes)>>, 1)
    /\ UNCHANGED <<foreign_keys, ingredients>>
    /\ Idle

delete_recipe(recipe_id, io) ==
    LET args == [recipe_id |-> recipe_id] IN
    /\ IF io
       THEN /\ last' = Err("delete_recipe", args, "StorageFault", 0)
            /\ UNCHANGED <<recipes, ingredients>>
       ELSE /\ recipes' = DeleteRecipeRow(recipes, recipe_id)
            /\ ingredients' =
                 IF recipe_id \in DOMAIN recipes
                 THEN Cascade(foreign_keys, ingredients, recipe_id)
                 ELSE ingredients
            /\ last' = Ok("delete_recipe", args, <<>>,
                          IF recipe_id \in DOMAIN recipes THEN 1 ELSE 0)
    /\ UNCHANGED foreign_keys
    /\ Idle

get_recipe_ingredients(recipe_id) ==
    /\ last' = Ok("get_recipe_ingredients", [recipe_id |-> recipe_id],
                  SelectByRecipe(ingredients, recipe_id), 0)
    /\ UNCHANGED <<foreign_keys, recipes, ingredients>>
    /\ Idle

\* failAt = 0: every statement runs; failAt = k: the k-th INSERT meets a storage
\* fault.  A foreign-key violation fails the first INSERT.
add_ingredients(recipe_id, names, failAt) ==
    LET args == [recipe_id |-> recipe_id, names |-> names]
        fkFails == Len(names) > 0 /\ ~ForeignKeyOk(foreign_keys, recipes, recipe_id)
        stop == IF fkFails THEN 1 ELSE failAt
        done == IF stop = 0 THEN Len(names) ELSE stop - 1
    IN
    /\ failAt \in 0..Len(names)
    /\ NextRowId(ingredients) + Len(names) - 1 <= MaxRows
    /\ ingredients' = InsertAll(ingredients, recipe_id, names, done)
    /\ last' = IF stop = 0 THEN Ok("add_ingredients", args, <<>>, done)
               ELSE Err("add_ingredients", args,
                        IF fkFails THEN "ForeignKeyViolation" ELSE "StorageFault", done)
    /\ UNCHANGED <<foreign_keys, recipes>>
    /\ Idle

get_shopping_list ==
    /\ last' = Ok("get_shopping_list", <<>>, SelectShopping(ingredients), 0)
    /\ UNCHANGED <<foreign_keys, recipes, ingredients>>
    /\ Idle

mark_ingredient(ingredient_name, have, io) ==
    LET args == [name |-> ingredient_name, have |-> have] IN
    /\ IF io
       THEN /\ last' = Err("mark_ingredient", args, "StorageFault", 0)
            /\ UNCHANGED ingredients
       ELSE /\ ingredients' = UpdateHave(ingredients, {ingredient_name}, HaveInt(have))
            /\ last' = Ok("mark_ingredient", args, <<>>,
                          Cardinality(Matching(ingredients, {ingredient_name})))
    /\ UNCHANGED <<foreign_keys, recipes>>
    /\ Idle

mark_multiple_ingredients(ingredient_names, have, io) ==
    LET args == [names |-> ingredient_names, have |-> have] IN
    /\ IF io
       THEN /\ last' = Err("mark_multiple_ingredients", args, "StorageFault", 0)
            /\ UNCHANGED ingredients
       ELSE /\ ingredients' =
                 UpdateHave(ingredients, InList(ingredient_names), HaveInt(have))
            /\ last' = Ok("mark_multiple_ingredients", args, <<>>,
                          Cardinality(Matching(ingredients, InList(ingredient_names))))
    /\ UNCHANGED <<foreign_keys, recipes>>
    /\ Idle

\* The stages of mark_and_remove_ingredients at which a storage fault may strike.
FaultStages == {"none", "begin", "update", "delete", "commit"}

mark_and_remove_ingredients(ingredient_names, fault) ==
    LET args == [names |-> ingredient_names, fault |-> fault]
        snapshot == ingredients
        updated == UpdateHave(snapshot, InList(ingredient_names), 1)
        deleted == DeleteByName(updated, InList(ingredient_names))
    IN
    /\ ingredients' =
         CASE fault = "none" -> deleted
           [] fault = "begin" -> snapshot
           [] fault = "update" -> Rollback(snapshot, snapshot)
           [] fault = "delete" -> Rollback(snapshot, updated)
           [] fault = "commit" -> Rollback(snapshot, deleted)
    /\ last' = IF fault = "none"
               THEN Ok("mark_and_remove_ingredients", args, <<>>,
                       Cardinality(DOMAIN updated \ DOMAIN deleted))
               ELSE Err("mark_and_remove_ingredients", args, "StorageFault", 0)
    /\ UNCHANGED <<foreign_keys, recipes>>
    /\ Idle

Next ==
    \/ \E t \in Titles, l \in Links, io \in BOOLEAN : add_recipe(t, l, io)
    \/ \E id \in RecipeIdArgs, io \in BOOLEAN : delete_recipe(id, io)
    \/ \E id \in RecipeIdArgs : get_recipe_ingredients(id)
    \/ \E id \in RecipeIdArgs, ns \in NameSeqs, k \in 0..MaxLen : add_ingredients(id, ns, k)
    \/ get_shopping_list
    \/ \E n \in Names, h \in BOOLEAN, io \in BOOLEAN : mark_ingredient(n, h, io)
    \/ \E ns \in NameSeqs, h \in BOOLEAN, io \in BOOLEAN : mark_multiple_ingredients(ns, h, io)
    \/ \E ns \in NameSeqs, f \in FaultStages : mark_and_remove_ingredients(ns, f)

Spec == Init /\ [][Next]_vars

\* ------------------------------------------------------------- a second reader
\* mark_and_remove_ingredients statement by statement, with a second connection to
\* recipes.db (another run of the program) reading between its statements.

\* A call that has not returned yet.
Running(op, args) ==
    [op |-> op, args |-> args, status |-> "Running", error |-> "",
     value |-> <<>>, changes |-> 0]

\* What a second connection reads while the first has a transaction open: the
\* committed table, without the transaction's work.
ReaderViewDirty(committed, working) == working
ReaderView(committed, working) == committed

\* The call failed at `stage`: the transaction is dropped and rolls back.
mark_and_remove_abort(stage) ==
    /\ ingredients' = Rollback(ingredients, tx.working)
    /\ tx' = NoTx
    /\ last' = Err("mark_and_remove_ingredients",
                   [names |-> tx.names, fault |-> stage], "StorageFault", 0)

\* let tx = self.conn.transaction()?;
mark_and_remove_begin(ingredient_names, fault) ==
    /\ tx = NoTx
    /\ IF fault
       THEN /\ last' = Err("mark_and_remove_ingredients",
                           [names |-> ingredient_names, fault |-> "begin"],
                           "StorageFault", 0)
            /\ tx' = tx
       ELSE /\ last' = Running("mark_and_remove_ingredients",
                               [names |-> ingredient_names, fault |-> "none"])
            /\ tx' = [stage |-> "begun", names |-> ingredient_names,
                      working |-> ingredients]
    /\ observed' = NoRead
    /\ UNCHANGED <<foreign_keys, recipes, ingredients>>

\* tx.execute(&update_query, ...)?;
mark_and_remove_update(fault) ==
    /\ tx.stage = "begun"
    /\ IF fault
       THEN mark_and_remove_abort("update")
       ELSE /\ tx' = [tx EXCEPT !.stage = "updated",
                                !.working = UpdateHave(tx.working, InList(tx.names), 1)]
            /\ UNCHANGED <<ingredients, last>>
    /\ observed' = NoRead
    /\ UNCHANGED <<foreign_keys, recipes>>

\* tx.execute(&delete_query, ...)?;
mark_and_remove_delete(fault) ==
    /\ tx.stage = "updated"
    /\ IF fault
       THEN mark_and_remove_abort("delete")
       ELSE /\ tx' = [tx EXCEPT !.stage = "deleted",
                                !.working = DeleteByName(tx.working, InList(tx.names))]
            /\ UNCHANGED <<ingredients, last>>
    /\ observed' = NoRead
    /\ UNCHANGED <<foreign_keys, recipes>>

\* tx.commit()?;
mark_and_remove_commit(fault) ==
    /\ tx.stage = "deleted"
    /\ IF fault
       THEN mark_and_remove_abort("commit")
       ELSE /\ ingredients' = tx.working
            /\ tx' = NoTx
            /\ last' = Ok("mark_and_remove_ingredients",
                          [names |-> tx.names, fault |-> "none"], <<>>,
                          Cardinality(DOMAIN ingredients \ DOMAIN tx.working))
    /\ observed' = NoRead
    /\ UNCHANGED <<foreign_keys, recipes>>

\* The second connection reads the ingredients table and its shopping list; while
\* the first holds a transaction the read may also fail as busy.
second_connection_read(busy) ==
    LET view == IF tx.stage = "none" THEN ingredients
                ELSE ReaderView(ingredients, tx.working)
    IN
    /\ busy => tx.stage # "none"
    /\ observed' =
         IF busy
         THEN [status |-> "Busy", stage |-> tx.stage, names |-> tx.names,
               rows |-> <<>>, list |-> <<>>]
         ELSE [status |-> "Ok", stage |-> tx.stage, names |-> tx.names,
               rows |-> view, list |-> SelectShopping(view)]
    /\ UNCHANGED <<foreign_keys, recipes, ingredients, last, tx>>

NextReader ==
    \/ \E t \in Titles, l \in Links, io \in BOOLEAN : add_recipe(t, l, io)
    \/ \E id \in RecipeIdArgs, io \in BOOLEAN : delete_recipe(id, io)
    \/ \E id \in RecipeIdArgs : get_recipe_ingredients(id)
    \/ \E id \in RecipeIdArgs, ns \in NameSeqs, k \in 0..MaxLen : add_ingredients(id, ns, k)
    \/ get_shopping_list
    \/ \E n \in Names, h \in BOOLEAN, io \in BOOLEAN : mark_ingredient(n, h, io)
    \/ \E ns \in NameSeqs, h \in BOOLEAN, io \in BOOLEAN : mark_multiple_ingredients(ns, h, io)
    \/ \E ns \in NameSeqs, f \in BOOLEAN : mark_and_remove_begin(ns, f)
    \/ \E f \in BOOLEAN : mark_and_remove_update(f)
    \/ \E f \in BOOLEAN : mark_and_remove_delete(f)
    \/ \E f \in BOOLEAN : mark_and_remove_commit(f)
    \/ \E busy \in BOOLEAN : second_connection_read(busy)

SpecReader == Init /\ [][NextReader]_vars

\* ------------------------------------------------------------- the shell
\* The menu actions of run_cli (src/src/cli.rs).  Each is the whole handler: the
\* store calls it makes, in order, up to the first that fails (`?`).  `last` is the
\* last store call the handler made.  Handlers that return before any store call
\* changes nothing and are stuttering steps.

\* The entries of `seq` at the indices S, in index order (MultiSelect's answer).
RECURSIVE Pick(_, _)
Pick(seq, S) ==
    IF S = {} THEN <<>>
    ELSE LET m == Max(S) IN Append(Pick(seq, S \ {m}), seq[m])

\* The rowids of S in ascending order.
RECURSIVE Ascending(_)
Ascending(S) ==
    IF S = {} THEN <<>>
    ELSE LET m == Max(S) IN Append(Ascending(S \ {m}), m)

\* get_recipes(None): the recipes a menu lets the user choose from.
SavedRecipes(rs) == DOMAIN rs

\* A loop `for x in names { db.add_ingredients(recipe_id, &[x])? }`: the index of
\* the call that fails (0: none).
FirstFailure(fk, rs, recipe_id, names, failAt) ==
    IF Len(names) > 0 /\ ~ForeignKeyOk(fk, rs, recipe_id) THEN 1 ELSE failAt

\* The record of the last call such a loop made.
LastAddCall(recipe_id, names, stop, fkFails) ==
    LET j == IF stop = 0 THEN Len(names) ELSE stop
        args == [recipe_id |-> recipe_id, names |-> <<names[j]>>]
    IN IF stop = 0 THEN Ok("add_ingredients", args, <<>>, 1)
       ELSE Err("add_ingredients", args,
                IF fkFails THEN "ForeignKeyViolation" ELSE "StorageFault", 0)

\* One add_ingredients call per name of `names` (not empty) until one fails.
AddOneByOne(recipe_id, names, failAt) ==
    LET stop == FirstFailure(foreign_keys, recipes, recipe_id, names, failAt)
        done == IF stop = 0 THEN Len(names) ELSE stop - 1
    IN
    /\ failAt \in 0..Len(names)
    /\ NextRowId(ingredients) + Len(names) - 1 <= MaxRows
    /\ ingredients' = InsertAll(ingredients, recipe_id, names, done)
    /\ last' = LastAddCall(recipe_id, names, stop,
                           ~ForeignKeyOk(foreign_keys, recipes, recipe_id))

\* 0 => search_and_save_recipe: add_recipe, then add_ingredients(recipe_id, materials).
search_and_save_recipe(title, link, materials, io, failAt) ==
    LET recipe_id == NextRowId(recipes)
        saved == InsertRecipe(recipes, title, link)
        stop == FirstFailure(foreign_keys, saved, recipe_id, materials, failAt)
        done == IF stop = 0 THEN Len(materials) ELSE stop - 1
        args == [recipe_id |-> recipe_id, names |-> materials]
    IN
    /\ failAt \in 0..Len(materials)
    /\ (io => failAt = 0)
    /\ recipe_id <= MaxRecipes
    /\ NextRowId(ingredients) + Len(materials) - 1 <= MaxRows
    /\ IF io
       THEN /\ last' = Err("add_recipe", [title |-> title, link |-> link],
                           "StorageFault", 0)
            /\ UNCHANGED <<recipes, ingredients>>
       ELSE /\ recipes' = saved
            /\ ingredients' = InsertAll(ingredients, recipe_id, materials, done)
            /\ last' = IF stop = 0 THEN Ok("add_ingredients", args, <<>>, done)
                       ELSE Err("add_ingredients", args, "StorageFault", done)
    /\ UNCHANGED foreign_keys
    /\ Idle

\* 1 => view_saved_recipes: get_recipes, then get_recipe_ingredients of the choice.
view_saved_recipes(recipe_id) ==
    /\ recipe_id \in SavedRecipes(recipes)
    /\ get_recipe_ingredients(recipe_id)

\* The first k delete_recipe calls of delete_saved_recipes over the chosen ids.
RECURSIVE DeleteAll(_, _, _, _)
DeleteAll(fk, db, ids, k) ==
    IF k = 0 THEN db
    ELSE LET before == DeleteAll(fk, db, ids, k - 1) IN
         [recipes |-> DeleteRecipeRow(before.recipes, ids[k]),
          ingredients |->
              IF ids[k] \in DOMAIN before.recipes
              THEN Cascade(fk, before.ingredients, ids[k])
              ELSE before.ingredients]

\* 2 => delete_saved_recipes: delete_recipe for every chosen recipe, in list order.
delete_saved_recipes(chosen, failAt) ==
    LET ids == Ascending(chosen)
        done == IF failAt = 0 THEN Len(ids) ELSE failAt - 1
        after == DeleteAll(foreign_keys,
                           [recipes |-> recipes, ingredients |-> ingredients],
                           ids, done)
        j == IF failAt = 0 THEN Len(ids) ELSE failAt
    IN
    /\ chosen # {}
    /\ chosen \subseteq SavedRecipes(recipes)
    /\ failAt \in 0..Len(ids)
    /\ recipes' = after.recipes
    /\ ingredients' = after.ingredients
    /\ last' = IF failAt = 0
               THEN Ok("delete_recipe", [recipe_id |-> ids[j]], <<>>, 1)
               ELSE Err("delete_recipe", [recipe_id |-> ids[j]], "StorageFault", 0)
    /\ UNCHANGED foreign_keys
    /\ Idle

\* 3 => view_shopping_list
view_shopping_list == get_shopping_list

\* 4 => add_to_shopping_list, "Add from Saved Recipes": the chosen ingredients of
\* a saved recipe are inserted again, one add_ingredients call each.
add_ingredients_from_recipes(recipe_id, chosen, failAt) ==
    LET listed == SelectByRecipe(ingredients, recipe_id) IN
    /\ recipe_id \in SavedRecipes(recipes)
    /\ chosen # {}
    /\ chosen \subseteq DOMAIN listed
    /\ AddOneByOne(recipe_id, Pick(listed, chosen), failAt)
    /\ UNCHANGED <<foreign_keys, recipes>>
    /\ Idle

\* 4 => add_to_shopping_list, "Add Manually": the typed names, trimmed and not
\* empty, one add_ingredients(0, ..) call each.
add_manual_ingredients(typed, failAt) ==
    /\ typed # <<>>
    /\ AddOneByOne(ManualRecipeId, typed, failAt)
    /\ UNCHANGED <<foreign_keys, recipes>>
    /\ Idle

\* 5 => mark_ingredients: the chosen entries of get_shopping_list go to
\* mark_and_remove_ingredients.
mark_ingredients(chosen, fault) ==
    LET shopping_list == SelectShopping(ingredients) IN
    /\ chosen # {}
    /\ chosen \subseteq DOMAIN shopping_list
    /\ mark_and_remove_ingredients(Pick(shopping_list, chosen), fault)

NextCli ==
    \/ \E t \in Titles, l \in Links, ms \in NameSeqs, io \in BOOLEAN, k \in 0..MaxLen :
         search_and_save_recipe(t, l, ms, io, k)
    \/ \E id \in RecipeIdArgs : view_saved_recipes(id)
    \/ \E chosen \in SUBSET (1..MaxRecipes), k \in 0..MaxRecipes :
         delete_saved_recipes(chosen, k)
    \/ view_shopping_list
    \/ \E id \in RecipeIdArgs, chosen \in SUBSET (1..MaxRows), k \in 0..MaxRows :
         add_ingredients_from_recipes(id, chosen, k)
    \/ \E typed \in NameSeqs, k \in 0..MaxLen : add_manual_ingredients(typed, k)
    \/ \E chosen \in SUBSET (1..MaxRows), f \in FaultStages : mark_ingredients(chosen, f)

SpecCli == Init /\ [][NextCli]_vars

\* ------------------------------------------------------------- claims
MarkAndRemove == "mark_and_remove_ingredients"

\* C1: mark_and_remove_ingredients is all-or-nothing: a call that fails at any
\* stage (begin, update, delete, commit) returns an error and leaves every stored
\* ingredient row, its presence and its have flag, and every recipe row as it was.
C1_MarkAndRemoveAtomic ==
    [][(last'.op = MarkAndRemove /\ last'.args.fault # "none") =>
         /\ last'.status = "Err"
         /\ ingredients' = ingredients
         /\ recipes' = recipes]_vars

\* C1 witness: the call failed after the UPDATE had run, and a needed row it names
\* is still stored.
C1_Witness ==
    /\ last.op = MarkAndRemove
    /\ last.status = "Err"
    /\ last.args.fault \in {"delete", "commit"}
    /\ \E i \in DOMAIN ingredients :
         ingredients[i].name \in InList(last.args.names) /\ ingredients[i].have = 0

\* C2: after delete_recipe(R.id) returns Ok for a stored recipe R that owns at least
\* one ingredient, get_recipe_ingredients(R.id) is empty and no ingredient row has
\* recipe_id = R.id.
C2_CascadeOnDelete ==
    (last.op = "delete_recipe" /\ last.status = "Ok" /\ last.changes = 1) =>
      /\ SelectByRecipe(ingredients, last.args.recipe_id) = <<>>
      /\ \A i \in DOMAIN ingredients : ingredients[i].recipe_id # last.args.recipe_id

\* The number of entries of `seq` equal to n.
Count(seq, n) == Cardinality({k \in DOMAIN seq : seq[k] = n})

\* C3: get_shopping_list returns one entry per stored row with have = 0 and nothing
\* else, and right after mark_ingredient(n, true) returns Ok the name n is not in
\* the shopping list.
C3_ShoppingListDerived ==
    /\ last.op = "get_shopping_list" =>
         /\ last.status = "Ok"
         /\ \A k \in DOMAIN last.value : last.value[k] \in Names
         /\ \A n \in Names :
              Count(last.value, n) =
                Cardinality({i \in DOMAIN ingredients :
                               ingredients[i].name = n /\ ingredients[i].have = 0})
    /\ (last.op = "mark_ingredient" /\ last.status = "Ok" /\ last.args.have) =>
         last.args.name \notin InList(SelectShopping(ingredients))

\* C3 witness: mark_ingredient(n, true) changed a row, and another row is still
\* needed.
C3_Witness ==
    /\ last.op = "mark_ingredient"
    /\ last.status = "Ok"
    /\ last.args.have
    /\ last.changes > 0
    /\ SelectShopping(ingredients) # <<>>

\* C4: delete_recipe with an id that matches no stored recipe returns an error.
C4_DeleteMissingFails ==
    (last.op = "delete_recipe" /\ last.changes = 0) => last.status = "Err"

\* C5: after mark_and_remove_ingredients(names) returns Ok no stored row has a name
\* in names, every row with another name and every recipe row is as it was, no row
\* is added, and the shopping list holds no name of names.
C5_MarkAndRemoveEffect ==
    [][(last'.op = MarkAndRemove /\ last'.status = "Ok") =>
         LET named == InList(last'.args.names) IN
         /\ \A i \in DOMAIN ingredients' : ingredients'[i].name \notin named
         /\ \A i \in DOMAIN ingredients :
              ingredients[i].name \notin named =>
                i \in DOMAIN ingredients' /\ ingredients'[i] = ingredients[i]
         /\ DOMAIN ingredients' \subseteq DOMAIN ingredients
         /\ recipes' = recipes
         /\ InList(SelectShopping(ingredients')) \cap named = {}]_vars

\* C5 witness: the call removed at least one row, and a row owned by a recipe is
\* still stored.
C5_Witness ==
    /\ last.op = MarkAndRemove
    /\ last.status = "Ok"
    /\ last.changes > 0
    /\ ingredients # <<>>
    /\ \E i \in DOMAIN ingredients : ingredients[i].recipe_id # ManualRecipeId

\* The rows the last add_ingredients call inserted: the `changes` largest rowids.
Inserted == {i \in DOMAIN ingredients : i > NextRowId(ingredients) - 1 - last.changes}

\* C6: add_ingredients for a manual entry succeeds whether or not a recipe exists
\* (storage faults aside), stores one row per name with have = 0 and a NULL owning
\* recipe, and get_recipe_ingredients returns those rows for no recipe id.
C6_ManualEntriesNull ==
    (/\ last.op = "add_ingredients"
     /\ last.args.recipe_id = ManualRecipeId
     /\ last.error # "StorageFault")
    => /\ last.status = "Ok"
       /\ last.changes = Len(last.args.names)
       /\ \A i \in Inserted :
            /\ ingredients[i].have = 0
            /\ ingredients[i].recipe_id = NULL
            /\ \A id \in RecipeIdArgs : ingredients[i].recipe_id # id

\* One step keeps the have flag of every row that stays stored and was 1.
HaveKept ==
    \A i \in DOMAIN ingredients \cap DOMAIN ingredients' :
        ingredients[i].have = 1 => ingredients'[i].have = 1

\* C7 as stated: no operation changes a stored row's have flag from 1 back to 0.
C7_HaveNeverCleared == [][HaveKept]_vars

\* C7 amended: only mark_ingredient and mark_multiple_ingredients called with
\* have = false change a stored row's have flag from 1 back to 0.
C7_HaveClearedOnlyBySetFalse ==
    [][\/ HaveKept
       \/ /\ last'.op \in {"mark_ingredient", "mark_multiple_ingredients"}
          /\ ~last'.args.have]_vars

\* C7 witness: mark_and_remove_ingredients removed a row while another row, stored
\* with have = 1, stayed as it was.
C7_Witness ==
    /\ last.op = MarkAndRemove
    /\ last.status = "Ok"
    /\ last.changes > 0
    /\ \E i \in DOMAIN ingredients : ingredients[i].have = 1

\* C8: every stored ingredient row with a non-NULL recipe_id references a stored
\* recipe row.
C8_ReferentialIntegrity ==
    \A i \in DOMAIN ingredients :
        ingredients[i].recipe_id # NULL => ingredients[i].recipe_id \in DOMAIN recipes

C10_EmptyTitleRejected ==
    (last.op = "add_recipe" /\ (last.args.title = "" \/ last.args.link = ""))
    => last.status = "Err" /\ last.changes = 0

\* The rows a read returned that the open call names.
ObservedNamed == Matching(observed.rows, InList(observed.names))

C12_ShellNeverStoresHave ==
    /\ \A i \in DOMAIN ingredients : ingredients[i].have = 0
    /\ Len(SelectShopping(ingredients)) = Cardinality(DOMAIN ingredients)
    /\ \A n \in Names :
         Count(SelectShopping(ingredients), n) =
           Cardinality(Matching(ingredients, {n}))
    /\ \A id \in DOMAIN recipes :
         InList(SelectByRecipe(ingredients, id)) \subseteq
           InList(SelectShopping(ingredients))

\* C12 witness: "Mark Ingredients" failed after its UPDATE had run, and a row it
\* named is stored, owned by a saved recipe.
C12_Witness ==
    /\ last.op = MarkAndRemove
    /\ last.status = "Err"
    /\ last.args.fault \in {"delete", "commit"}
    /\ \E i \in DOMAIN ingredients :
         /\ ingredients[i].name \in InList(last.args.names)
         /\ ingredients[i].recipe_id \in DOMAIN recipes

====
